---- MODULE Spec2Model ----
(***************************************************************************)
(* Toyota Connected Services integration for Home Assistant.               *)
(*                                                                         *)
(* The model covers custom_components/toyota/__init__.py (setup of a       *)
(* config entry, the coordinator's update method async_get_vehicle_data)   *)
(* and custom_components/toyota/sensor.py (creation of the sensor entities *)
(* from the coordinator's data, the sensors' value and attribute           *)
(* properties).                                                            *)
(*                                                                         *)
(* Python's None is the empty tuple and a present value x is <<x>>, so     *)
(* that an Optional[...] is always a tuple of length 0 or 1.               *)
(***************************************************************************)
EXTENDS Integers, Sequences, FiniteSets, TLC

VARIABLES
    metric_values,        \* entry.data[CONF_METRIC_VALUES]
    setup_pc,             \* position of __init__.async_setup_entry
    setup_result,         \* what __init__.async_setup_entry returned or raised
    login_outcome,        \* how client.login() ended
    stored,               \* entry.entry_id in hash.data[DOMAIN]
    forwarded,            \* async_forward_entry_setups(entry, PLATFORMS) was called
    coordinator,          \* DataUpdateCoordinator: data, last_update_success
    cyc_pc,               \* position of async_get_vehicle_data
    stalled,              \* the awaited upstream call will never complete
    vehicles,             \* local variable vehicles
    index,                \* position of the for loop over vehicles
    vehicle_informations, \* local variable vehicle_informations
    last_outcome,         \* how the last cycle ended for the coordinator
    last_error,           \* upstream error raised in the current / last cycle
    err_phase,            \* the await at which last_error was raised
    last_listing,         \* what get_vehicles returned in the current / last cycle
    gather_failure,       \* the last gather: how many requests failed, the first exception
    last_good,            \* return value of the last cycle that ended without error
    silent_seen,          \* a Silent-tier error ended a cycle since last_good
    sensors,              \* entities handed to async_add_devices
    sensor_setup,         \* how sensor.async_setup_entry ended
    last_read,            \* last property read on an entity
    vehicle_data          \* local variable vehicle_data

vars == <<metric_values, setup_pc, setup_result, login_outcome, stored,
          forwarded, coordinator, cyc_pc, stalled, vehicles, index,
          vehicle_informations, last_outcome, last_error, err_phase,
          last_listing, gather_failure, last_good, silent_seen, sensors,
          sensor_setup, last_read, vehicle_data>>

(***************************************************************************)
(* Optional values.                                                        *)
(***************************************************************************)
None == <<>>

Some(x) == <<x>>

IsNone(o) == o = <<>>

Get(o) == o[1]

(***************************************************************************)
(* Bounds of the model.                                                    *)
(***************************************************************************)
MaxVehicles == 2

(***************************************************************************)
(* Upstream error kinds (spec section 6) and their tiers (section 7).      *)
(***************************************************************************)
Silent == {"ToyotaLoginError", "ToyotaInternalError", "ValidationError"}

Retryable == {"ToyotaApiError", "ConnectTimeout", "CancelledError",
              "TimeoutError", "ReadTimeout"}

ErrorKinds == Silent \cup Retryable \cup {"Exception"}

Periods == {"day", "week", "month", "year"}

(***************************************************************************)
(* The vehicles of the account, as the client library hands them out.      *)
(* _vehicle_info.extended_capabilities is a missing attribute, None or an  *)
(* object whose flags are true, false, None or missing attributes.         *)
(***************************************************************************)
Flags == {"telemetry_capable", "fuel_level_available",
          "fuel_range_available", "econnect_vehicle_status_capable"}

FlagValues == {"true", "false", "none", "missing"}

NoFlags == [f \in Flags |-> "missing"]

VehicleInfos ==
    {[ext |-> "missing", flags |-> NoFlags], [ext |-> "none", flags |-> NoFlags]}
    \cup {[ext |-> "object", flags |-> fl] : fl \in [Flags -> FlagValues]}

AllTrue == [ext |-> "object", flags |-> [f \in Flags |-> "true"]]

AllFalse == [ext |-> "object", flags |-> [f \in Flags |-> "false"]]

DashboardFields == {"odometer", "fuel_level", "fuel_range", "battery_level",
                    "battery_range", "battery_range_with_ac", "range"}

\* dashboard readings, in tenths of the unit
Dashboard1 == [f \in DashboardFields |->
                 IF f \in {"battery_level", "battery_range_with_ac"}
                 THEN None ELSE Some(425)]

\* a Vehicle object as get_vehicles builds it; status is the dashboard the
\* upstream holds for the vehicle, which vehicle.update() loads
Vehicle(vin, info, status) ==
    [vin |-> vin, info |-> info, dashboard |-> None, status |-> status]

\* the account's vehicles in the order get_vehicles lists them
Fleet == << Vehicle(Some("JT1"), AllTrue, Some(Dashboard1)),
            Vehicle(None, AllFalse, Some(Dashboard1)),
            Vehicle(Some(""), AllTrue, None) >>

RECURSIVE Pick(_, _)
\* the vehicles of Fleet at the positions in S, in Fleet's order
Pick(S, i) ==
    IF i > Len(Fleet) THEN <<>>
    ELSE IF i \in S THEN <<Fleet[i]>> \o Pick(S, i + 1)
    ELSE Pick(S, i + 1)

\* what client.get_vehicles can return: None or a list of vehicles
Listings ==
    {None} \cup
    {Some(Pick(S, 1)) : S \in {T \in SUBSET (1..Len(Fleet)) :
                                  Cardinality(T) <= MaxVehicles}}

\* Summary objects: distance is None or a number, in hundredths of the unit
Summary(distance) == [distance |-> distance]

\* what the four summary requests of a vehicle return when none fails
SummaryResults ==
    { [p \in Periods |-> Some(Summary(Some(1234)))],
      [p \in Periods |->
         CASE p = "day" -> Some(Summary(Some(0)))
           [] p = "week" -> None
           [] p = "month" -> Some(Summary(None))
           [] OTHER -> Some(Summary(Some(1275)))] }

(***************************************************************************)
(* __init__.py: the TypedDicts.                                            *)
(***************************************************************************)
StatisticsData(day, week, month, year) ==
    [day |-> day, week |-> week, month |-> month, year |-> year]

VehicleData(data, statistics, metric) ==
    [data |-> data, statistics |-> statistics, metric_values |-> metric]

(***************************************************************************)
(* __init__.py: the except clauses of async_get_vehicle_data, in order.    *)
(* "return None": the clause logs and falls through to the final return.   *)
(* "propagate": no clause matches, the exception leaves the function.      *)
(***************************************************************************)
\* variant: the connect timeout is logged like the validation error
except_clauses_logs_connect_timeout(ex) ==
    CASE ex = "ToyotaLoginError" -> "return None"
      [] ex = "ToyotaInternalError" -> "return None"
      [] ex = "ToyotaApiError" -> "UpdateFailed"
      [] ex = "ConnectTimeout" -> "return None"
      [] ex = "ValidationError" -> "return None"
      [] ex \in {"CancelledError", "TimeoutError", "ReadTimeout"} -> "UpdateFailed"
      [] OTHER -> "propagate"

except_clauses(ex) ==
    CASE ex = "ToyotaLoginError" -> "return None"
      [] ex = "ToyotaInternalError" -> "return None"
      [] ex = "ToyotaApiError" -> "UpdateFailed"
      [] ex = "ConnectTimeout" -> "UpdateFailed"
      [] ex = "ValidationError" -> "return None"
      [] ex \in {"CancelledError", "TimeoutError", "ReadTimeout"} -> "UpdateFailed"
      [] OTHER -> "propagate"

(***************************************************************************)
(* asyncio.gather of the four summary requests, return_exceptions unset:   *)
(* the first exception raised by a request is raised to the awaiter, and   *)
(* the results are delivered only when no request failed.  failing is the  *)
(* set of requests that fail and ex the exception of the first to fail.    *)
(***************************************************************************)
\* variant: a failed request counts as a request without a summary
gather_drops_failures(results, failing, ex) ==
    [raised |-> FALSE, ex |-> "none",
     results |-> [p \in Periods |-> IF p \in failing THEN None ELSE results[p]]]

gather(results, failing, ex) ==
    IF failing # {}
    THEN [raised |-> TRUE, ex |-> ex, results |-> results]
    ELSE [raised |-> FALSE, ex |-> "none", results |-> results]

(***************************************************************************)
(* The coordinator built in async_setup_entry: a refresh stores what       *)
(* update_method returns as data; when update_method raises, data is kept  *)
(* and last_update_success is cleared.                                     *)
(***************************************************************************)
DataUpdateCoordinator(coord, how, value) ==
    IF how = "returned"
    THEN [data |-> value, last_update_success |-> TRUE]
    ELSE [coord EXCEPT !.last_update_success = FALSE]

\* async_config_entry_first_refresh: raises ConfigEntryNotReady when the
\* first refresh did not succeed
async_config_entry_first_refresh(how) ==
    IF how = "returned" THEN "ok" ELSE "ConfigEntryNotReady"

(***************************************************************************)
(* sensor.py: which entities async_setup_entry creates for a vehicle.      *)
(***************************************************************************)
\* truth value of a Python object used as a condition
bool(v) == v = "true"

\* variant: the getattr calls default to True
Capability_defaults_true(info, flag) ==
    IF info.ext # "object" THEN "true"
    ELSE IF info.flags[flag] = "missing" THEN "true"
    ELSE info.flags[flag]

\* getattr(getattr(info, "extended_capabilities", False), flag, False):
\* False and None have no attribute named flag
Capability(info, flag) ==
    IF info.ext # "object" THEN "false"
    ELSE IF info.flags[flag] = "missing" THEN "false"
    ELSE info.flags[flag]

\* variant: a and not b
And_not(a, b) == IF bool(a) THEN (IF bool(b) THEN "false" ELSE "true") ELSE a

\* Python's  a and b
And(a, b) == IF bool(a) THEN b ELSE a

UnitOfLength(metric) == IF metric = TRUE THEN "km" ELSE "mi"

Description(capability, key, sensor_type, native_unit, suggested_unit) ==
    [capability |-> capability, key |-> key, sensor_type |-> sensor_type,
     native_unit |-> native_unit, suggested_unit |-> suggested_unit]

capabilities_descriptions(vehicle, metric) ==
    << Description("true", "vin", "ToyotaSensor", None, None),
       Description(Capability(vehicle.info, "telemetry_capable"),
                   "odometer", "ToyotaSensor",
                   Some(UnitOfLength(metric)), Some(UnitOfLength(metric))),
       Description(Capability(vehicle.info, "fuel_level_available"),
                   "fuel_level", "ToyotaSensor", Some("%"), None),
       Description(Capability(vehicle.info, "fuel_range_available"),
                   "fuel_range", "ToyotaSensor",
                   Some(UnitOfLength(metric)), Some(UnitOfLength(metric))),
       Description(Capability(vehicle.info, "econnect_vehicle_status_capable"),
                   "battery_level", "ToyotaSensor", Some("%"), None),
       Description(Capability(vehicle.info, "econnect_vehicle_status_capable"),
                   "battery_range", "ToyotaSensor",
                   Some(UnitOfLength(metric)), Some(UnitOfLength(metric))),
       Description(Capability(vehicle.info, "econnect_vehicle_status_capable"),
                   "battery_range_ac", "ToyotaSensor",
                   Some(UnitOfLength(metric)), Some(UnitOfLength(metric))),
       Description(And(Capability(vehicle.info, "econnect_vehicle_status_capable"),
                       Capability(vehicle.info, "fuel_range_available")),
                   "total_range", "ToyotaSensor",
                   Some(UnitOfLength(metric)), Some(UnitOfLength(metric))),
       Description("true", "current_day_statistics", "ToyotaStatisticsSensor",
                   Some(UnitOfLength(metric)), Some(UnitOfLength(metric))),
       Description("true", "current_week_statistics", "ToyotaStatisticsSensor",
                   Some(UnitOfLength(metric)), Some(UnitOfLength(metric))),
       Description("true", "current_month_statistics", "ToyotaStatisticsSensor",
                   Some(UnitOfLength(metric)), Some(UnitOfLength(metric))),
       Description("true", "current_year_statistics", "ToyotaStatisticsSensor",
                   Some(UnitOfLength(metric)), Some(UnitOfLength(metric))) >>

\* the entity built from a description that passed its capability test;
\* vehicle_index counts from 1 here and from 0 in the source
Sensor(vehicle_index, d) ==
    [vehicle_index |-> vehicle_index, key |-> d.key,
     sensor_type |-> d.sensor_type, native_unit |-> d.native_unit,
     suggested_unit |-> d.suggested_unit]

RECURSIVE Created(_, _, _)
\* the generator of sensors.extend: the descriptions from position i on
\* whose capability is true, as entities
Created(vehicle_index, descriptions, i) ==
    IF i > Len(descriptions) THEN <<>>
    ELSE IF bool(descriptions[i].capability)
    THEN <<Sensor(vehicle_index, descriptions[i])>>
         \o Created(vehicle_index, descriptions, i + 1)
    ELSE Created(vehicle_index, descriptions, i + 1)

RECURSIVE SensorsFor(_, _)
\* the for loop of async_setup_entry over coordinator.data, from position i
SensorsFor(data, i) ==
    IF i > Len(data) THEN <<>>
    ELSE Created(i, capabilities_descriptions(data[i].data,
                                              data[i].metric_values), 1)
         \o SensorsFor(data, i + 1)

\* sensor.async_setup_entry: enumerate(None) raises TypeError
sensor_async_setup_entry(data) ==
    IF IsNone(data)
    THEN [raised |-> "TypeError", sensors |-> <<>>]
    ELSE [raised |-> "none", sensors |-> SensorsFor(Get(data), 1)]

(***************************************************************************)
(* sensor.py: the value and attribute properties of the entities.  A       *)
(* property read gives [raised, value]: the exception raised, if any, and  *)
(* the Optional value returned.                                            *)
(***************************************************************************)
Returned(value) == [raised |-> "none", value |-> value]

Raised(ex) == [raised |-> ex, value |-> None]

\* Python's round of a float to a multiple of unit, n and unit in the same
\* fixed-point scale; the result counts units.  A tie goes to the even
\* neighbour, which is what round does for the ties a float can hold
\* exactly (x.25 and x.75 to one place, x.5 to none).
round(n, unit) ==
    LET q == n \div unit
        r == n % unit
    IN  IF 2 * r < unit THEN q
        ELSE IF 2 * r > unit THEN q + 1
        ELSE IF q % 2 = 0 THEN q ELSE q + 1

\* utils.round_number with places = 0, on a reading in tenths
round_number(number) ==
    IF IsNone(number) THEN None ELSE Some(round(Get(number), 10))

\* the dashboard attribute each ToyotaSensorEntityDescription reads
DashboardField(key) ==
    CASE key = "odometer" -> "odometer"
      [] key = "fuel_level" -> "fuel_level"
      [] key = "fuel_range" -> "fuel_range"
      [] key = "battery_level" -> "battery_level"
      [] key = "battery_range" -> "battery_range"
      [] key = "battery_range_ac" -> "battery_range_with_ac"
      [] key = "total_range" -> "range"

\* value_fn of the ToyotaSensorEntityDescription with this key
value_fn(key, vehicle) ==
    IF key = "vin" THEN vehicle.vin
    ELSE IF IsNone(vehicle.dashboard) THEN None
    ELSE round_number(Get(vehicle.dashboard)[DashboardField(key)])

\* attributes_fn of the ToyotaSensorEntityDescription with this key
attributes_fn(key, vehicle) ==
    IF key = "vin" THEN Some("format_vin_sensor_attributes") ELSE None

\* period of the ToyotaStatisticsSensorEntityDescription with this key
period(key) ==
    CASE key = "current_day_statistics" -> "day"
      [] key = "current_week_statistics" -> "week"
      [] key = "current_month_statistics" -> "month"
      [] key = "current_year_statistics" -> "year"

\* ToyotaStatisticsSensor.native_value: statistics[period] raises TypeError
\* when statistics is None; a Summary object is true, a distance is true
\* unless it is None or zero; the value is in tenths
statistics_native_value(statistics, p) ==
    IF IsNone(statistics) THEN Raised("TypeError")
    ELSE LET data == Get(statistics)[p]
         IN  IF ~IsNone(data) /\ ~IsNone(Get(data).distance)
                /\ Get(Get(data).distance) # 0
             THEN Returned(Some(round(Get(Get(data).distance), 10)))
             ELSE Returned(None)

\* ToyotaStatisticsSensor.extra_state_attributes
statistics_extra_state_attributes(statistics, p) ==
    IF IsNone(statistics) THEN Raised("TypeError")
    ELSE LET data == Get(statistics)[p]
         IN  IF ~IsNone(data)
             THEN Returned(Some("format_statistics_attributes"))
             ELSE Returned(None)

\* ToyotaBaseEntity: the entity's vehicle and statistics attributes are
\* those of its vehicle_index in the coordinator's current data
EntityVehicle(sensor, data) == Get(data)[sensor.vehicle_index].data

EntityStatistics(sensor, data) == Get(data)[sensor.vehicle_index].statistics

\* native_value of an entity over the coordinator's current data
native_value(sensor, data) ==
    IF sensor.sensor_type = "ToyotaSensor"
    THEN Returned(value_fn(sensor.key, EntityVehicle(sensor, data)))
    ELSE statistics_native_value(EntityStatistics(sensor, data),
                                 period(sensor.key))

\* extra_state_attributes of an entity over the coordinator's current data
extra_state_attributes(sensor, data) ==
    IF sensor.sensor_type = "ToyotaSensor"
    THEN Returned(attributes_fn(sensor.key, EntityVehicle(sensor, data)))
    ELSE statistics_extra_state_attributes(EntityStatistics(sensor, data),
                                           period(sensor.key))

(***************************************************************************)
(* The state after Home Assistant calls __init__.async_setup_entry.        *)
(***************************************************************************)
NoFailure == [failed |-> 0, ex |-> "none"]

NoRead == [sensor |-> 0, property |-> "none", result |-> Returned(None)]

Init ==
    /\ metric_values = TRUE
    /\ setup_pc = "login"
    /\ setup_result = "none"
    /\ login_outcome = "none"
    /\ stored = FALSE
    /\ forwarded = FALSE
    /\ coordinator = [data |-> None, last_update_success |-> TRUE]
    /\ cyc_pc = "idle"
    /\ stalled = FALSE
    /\ vehicles = None
    /\ index = 0
    /\ vehicle_informations = <<>>
    /\ vehicle_data = None
    /\ last_outcome = "none"
    /\ last_error = "none"
    /\ err_phase = "none"
    /\ last_listing = "none"
    /\ gather_failure = NoFailure
    /\ last_good = None
    /\ silent_seen = FALSE
    /\ sensors = <<>>
    /\ sensor_setup = "none"
    /\ last_read = NoRead

\* what a refresh cycle never changes
Fixed == <<metric_values, login_outcome, stored, forwarded, sensors,
           sensor_setup>>

(***************************************************************************)
(* __init__.async_setup_entry up to the first refresh.                     *)
(***************************************************************************)
\* how client.login() can end
LoginOutcomes == {"ok", "ToyotaLoginError", "ConnectTimeout", "Exception"}

\* variant: the two except clauses raise each other's exception
login_except_swapped(outcome) ==
    CASE outcome = "ok" -> "ok"
      [] outcome = "ToyotaLoginError" -> "ConfigEntryNotReady"
      [] outcome = "ConnectTimeout" -> "ConfigEntryAuthFailed"
      [] OTHER -> outcome

\* the try statement around client.login()
login_except(outcome) ==
    CASE outcome = "ok" -> "ok"
      [] outcome = "ToyotaLoginError" -> "ConfigEntryAuthFailed"
      [] outcome = "ConnectTimeout" -> "ConfigEntryNotReady"
      [] OTHER -> outcome

Login ==
    /\ setup_pc = "login"
    /\ \E outcome \in LoginOutcomes :
          /\ login_outcome' = outcome
          /\ IF login_except(outcome) = "ok"
             THEN /\ setup_pc' = "first_refresh"
                  /\ setup_result' = setup_result
             ELSE /\ setup_pc' = "aborted"
                  /\ setup_result' = login_except(outcome)
    /\ UNCHANGED <<metric_values, stored, forwarded, coordinator, cyc_pc,
                   stalled, vehicles, index, vehicle_informations,
                   vehicle_data, last_outcome, last_error, err_phase,
                   last_listing, gather_failure, last_good, silent_seen, sensors,
                   sensor_setup, last_read>>

(***************************************************************************)
(* A refresh cycle: the coordinator calls async_get_vehicle_data.          *)
(***************************************************************************)
\* the call of update_method, up to the await of get_vehicles
BeginCycle ==
    /\ cyc_pc' = "get_vehicles"
    /\ stalled' = FALSE
    /\ vehicles' = None
    /\ index' = 0
    /\ vehicle_informations' = <<>>
    /\ vehicle_data' = None
    /\ last_error' = "none"
    /\ err_phase' = "none"
    /\ last_listing' = "none"
    /\ gather_failure' = NoFailure
    /\ last_read' = NoRead
    /\ UNCHANGED <<coordinator, last_outcome, last_good, silent_seen>>
    /\ UNCHANGED Fixed

\* coordinator.async_config_entry_first_refresh()
FirstRefresh ==
    /\ setup_pc = "first_refresh"
    /\ cyc_pc = "idle"
    /\ setup_pc' = "refreshing"
    /\ setup_result' = setup_result
    /\ BeginCycle

\* the coordinator's timer (update_interval), which runs while the
\* coordinator has listeners and never while a refresh is under way
ScheduledRefresh ==
    /\ setup_pc = "done"
    /\ cyc_pc = "idle"
    /\ Len(sensors) > 0
    /\ UNCHANGED <<setup_pc, setup_result>>
    /\ BeginCycle

\* the end of async_get_vehicle_data and what the coordinator and, in the
\* first refresh, async_setup_entry do with it.  how is "returned" (value
\* is the return value), "UpdateFailed" or "raised"; ex is the upstream
\* error that ended the cycle, raised at the await named phase.
Finish(how, value, ex, phase) ==
    /\ cyc_pc' = "idle"
    /\ stalled' = FALSE
    /\ vehicles' = None
    /\ index' = 0
    /\ vehicle_informations' = <<>>
    /\ vehicle_data' = None
    /\ last_outcome' = how
    /\ last_error' = ex
    /\ err_phase' = phase
    /\ coordinator' = DataUpdateCoordinator(coordinator, how, value)
    /\ last_good' = IF how = "returned" /\ ex = "none" THEN value ELSE last_good
    /\ silent_seen' = IF ex \in Silent THEN TRUE
                      ELSE IF how = "returned" THEN FALSE
                      ELSE silent_seen
    /\ IF setup_pc = "refreshing"
       THEN IF async_config_entry_first_refresh(how) = "ok"
            THEN setup_pc' = "store" /\ setup_result' = setup_result
            ELSE /\ setup_pc' = "aborted"
                 /\ setup_result' = async_config_entry_first_refresh(how)
       ELSE UNCHANGED <<setup_pc, setup_result>>
    /\ UNCHANGED <<last_read>>
    /\ UNCHANGED Fixed

\* an exception raised inside the try statement
Raise(ex, phase) ==
    CASE except_clauses(ex) = "return None" -> Finish("returned", None, ex, phase)
      [] except_clauses(ex) = "UpdateFailed" -> Finish("UpdateFailed", None, ex, phase)
      [] OTHER -> Finish("raised", None, ex, phase)

\* the cycle goes on to its next await
Continue(pc, vs, i, infos, vd) ==
    /\ cyc_pc' = pc
    /\ stalled' = FALSE
    /\ vehicles' = vs
    /\ index' = i
    /\ vehicle_informations' = infos
    /\ vehicle_data' = vd
    /\ UNCHANGED <<setup_pc, setup_result, coordinator, last_outcome,
                   last_error, err_phase, last_good, silent_seen, last_read>>
    /\ UNCHANGED Fixed

\* vehicle_informations.append(vehicle_data) and the next turn of the loop,
\* or the return after the last vehicle
Append_and_loop(vd) ==
    IF index = Len(Get(vehicles))
    THEN Finish("returned", Some(Append(vehicle_informations, vd)), "none", "none")
    ELSE Continue("update", vehicles, index + 1,
                  Append(vehicle_informations, vd), None)

\* client.get_vehicles returns within the 15 seconds
GetVehiclesReturns ==
    /\ cyc_pc = "get_vehicles"
    /\ ~stalled
    /\ gather_failure' = gather_failure
    /\ \E listing \in Listings :
          IF IsNone(listing)
          THEN /\ last_listing' = "absent"
               /\ Finish("returned", None, "none", "none")
          ELSE IF Len(Get(listing)) = 0
          THEN /\ last_listing' = "empty"
               /\ Finish("returned", Some(<<>>), "none", "none")
          ELSE /\ last_listing' = "vehicles"
               /\ Continue("update", listing, 1, <<>>, None)

\* client.get_vehicles raises, or wait_for raises for it
GetVehiclesRaises ==
    /\ cyc_pc = "get_vehicles"
    /\ ~stalled
    /\ UNCHANGED <<last_listing, gather_failure>>
    /\ \E ex \in ErrorKinds : Raise(ex, "get_vehicles")

\* the upstream stops responding to the call the cycle is awaiting
UpstreamStalls ==
    /\ cyc_pc # "idle"
    /\ ~stalled
    /\ stalled' = TRUE
    /\ UNCHANGED <<metric_values, setup_pc, setup_result, login_outcome,
                   stored, forwarded, coordinator, cyc_pc, vehicles, index,
                   vehicle_informations, vehicle_data, last_outcome,
                   last_error, err_phase, last_listing, gather_failure, last_good,
                   silent_seen, sensors, sensor_setup, last_read>>

\* asyncio.wait_for(client.get_vehicles(...), 15): after 15 seconds without
\* a result the call is cancelled and TimeoutError is raised
DeadlineElapses ==
    /\ cyc_pc = "get_vehicles"
    /\ stalled
    /\ UNCHANGED <<last_listing, gather_failure>>
    /\ Raise("TimeoutError", "get_vehicles")

\* vehicle.update() returns: the vehicle's status is refreshed in place
UpdateReturns ==
    /\ cyc_pc = "update"
    /\ ~stalled
    /\ UNCHANGED <<last_listing, gather_failure>>
    /\ LET vehicle == [Get(vehicles)[index] EXCEPT
                          !.dashboard = Get(vehicles)[index].status]
           vd == VehicleData(vehicle, None, metric_values)
       IN  IF ~IsNone(vehicle.vin)
           THEN Continue("gather", vehicles, index, vehicle_informations,
                         Some(vd))
           ELSE Append_and_loop(vd)

\* vehicle.update() raises
UpdateRaises ==
    /\ cyc_pc = "update"
    /\ ~stalled
    /\ UNCHANGED <<last_listing, gather_failure>>
    /\ \E ex \in ErrorKinds : Raise(ex, "update")

\* the four summary requests end: the requests in failing raise, ex first,
\* the others return results
Gather ==
    /\ cyc_pc = "gather"
    /\ ~stalled
    /\ last_listing' = last_listing
    /\ \E results \in SummaryResults, failing \in SUBSET Periods :
       \E ex \in IF failing = {} THEN {"none"} ELSE ErrorKinds :
          LET driving_statistics == gather(results, failing, ex)
          IN  /\ gather_failure' = [failed |-> Cardinality(failing), ex |-> ex]
              /\ IF driving_statistics.raised
                 THEN Raise(driving_statistics.ex, "gather")
                 ELSE Append_and_loop(
                        [Get(vehicle_data) EXCEPT !.statistics =
                           Some(StatisticsData(
                                  driving_statistics.results["day"],
                                  driving_statistics.results["week"],
                                  driving_statistics.results["month"],
                                  driving_statistics.results["year"]))])

(***************************************************************************)
(* __init__.async_setup_entry after the first refresh.                     *)
(***************************************************************************)
\* hash.data[DOMAIN][entry.entry_id] = coordinator
StoreCoordinator ==
    /\ setup_pc = "store"
    /\ stored' = TRUE
    /\ setup_pc' = "forward"
    /\ UNCHANGED <<metric_values, setup_result, login_outcome, forwarded,
                   coordinator, cyc_pc, stalled, vehicles, index,
                   vehicle_informations, vehicle_data, last_outcome,
                   last_error, err_phase, last_listing, gather_failure,
                   last_good, silent_seen, sensors, sensor_setup, last_read>>

\* async_forward_entry_setups(entry, PLATFORMS), which runs
\* sensor.async_setup_entry; an exception of the platform's setup is logged
\* by the host and __init__.async_setup_entry returns True
ForwardEntrySetups ==
    /\ setup_pc = "forward"
    /\ forwarded' = TRUE
    /\ LET platform == sensor_async_setup_entry(coordinator.data)
       IN  /\ sensors' = platform.sensors
           /\ sensor_setup' = IF platform.raised = "none" THEN "ok"
                              ELSE platform.raised
    /\ setup_pc' = "done"
    /\ setup_result' = "True"
    /\ UNCHANGED <<metric_values, login_outcome, stored, coordinator, cyc_pc,
                   stalled, vehicles, index, vehicle_informations,
                   vehicle_data, last_outcome, last_error, err_phase,
                   last_listing, gather_failure, last_good, silent_seen,
                   last_read>>

(***************************************************************************)
(* The host reads a property of an entity.  The coordinator's data only    *)
(* changes when a cycle ends, so the reads between two cycles see all      *)
(* there is to see.  An entity is available, and its properties are read,  *)
(* while the coordinator's last update succeeded and its data has a        *)
(* vehicle at the entity's index.                                          *)
(***************************************************************************)
Readable(i) ==
    /\ i \in 1..Len(sensors)
    /\ cyc_pc = "idle"
    /\ coordinator.last_update_success
    /\ ~IsNone(coordinator.data)
    /\ sensors[i].vehicle_index <= Len(Get(coordinator.data))

ReadNativeValue ==
    /\ \E i \in 1..Len(sensors) :
          /\ Readable(i)
          /\ last_read' = [sensor |-> i, property |-> "native_value",
                           result |-> native_value(sensors[i], coordinator.data)]
    /\ UNCHANGED <<metric_values, setup_pc, setup_result, login_outcome,
                   stored, forwarded, coordinator, cyc_pc, stalled, vehicles,
                   index, vehicle_informations, vehicle_data, last_outcome,
                   last_error, err_phase, last_listing, gather_failure,
                   last_good, silent_seen, sensors, sensor_setup>>

ReadExtraStateAttributes ==
    /\ \E i \in 1..Len(sensors) :
          /\ Readable(i)
          /\ last_read' = [sensor |-> i, property |-> "extra_state_attributes",
                           result |-> extra_state_attributes(sensors[i],
                                                             coordinator.data)]
    /\ UNCHANGED <<metric_values, setup_pc, setup_result, login_outcome,
                   stored, forwarded, coordinator, cyc_pc, stalled, vehicles,
                   index, vehicle_informations, vehicle_data, last_outcome,
                   last_error, err_phase, last_listing, gather_failure,
                   last_good, silent_seen, sensors, sensor_setup>>

Next ==
    \/ Login
    \/ FirstRefresh
    \/ ScheduledRefresh
    \/ GetVehiclesReturns
    \/ GetVehiclesRaises
    \/ UpstreamStalls
    \/ DeadlineElapses
    \/ UpdateReturns
    \/ UpdateRaises
    \/ Gather
    \/ StoreCoordinator
    \/ ForwardEntrySetups
    \/ ReadNativeValue
    \/ ReadExtraStateAttributes

Spec == Init /\ [][Next]_vars

(***************************************************************************)
(* Entity creation over every shape of capability metadata: the state      *)
(* after hash.data[DOMAIN][entry.entry_id] = coordinator, when the first   *)
(* refresh has returned a list of one or two vehicles whose last vehicle   *)
(* has any of the VehicleInfos, and what async_setup_entry and the host    *)
(* do from there on while no further refresh runs.                         *)
(***************************************************************************)
FirstResults ==
    LET statistics == Some(StatisticsData(Some(Summary(Some(1234))), None,
                                          Some(Summary(Some(0))),
                                          Some(Summary(Some(25)))))
        Snapshot(info, metric) ==
            VehicleData([Vehicle(Some("JT1"), info, Some(Dashboard1))
                           EXCEPT !.dashboard = Some(Dashboard1)],
                        statistics, metric)
    IN  [metric \in BOOLEAN |->
           {<<Snapshot(info, metric)>> : info \in VehicleInfos}
           \cup {<<Snapshot(AllFalse, metric), Snapshot(info, metric)>> :
                   info \in VehicleInfos}]

ProjInit ==
    /\ metric_values \in BOOLEAN
    /\ setup_pc = "forward"
    /\ setup_result = "none"
    /\ login_outcome = "ok"
    /\ stored = TRUE
    /\ forwarded = FALSE
    /\ \E result \in FirstResults[metric_values] :
          /\ coordinator = [data |-> Some(result), last_update_success |-> TRUE]
          /\ last_good = Some(result)
    /\ cyc_pc = "idle"
    /\ stalled = FALSE
    /\ vehicles = None
    /\ index = 0
    /\ vehicle_informations = <<>>
    /\ vehicle_data = None
    /\ last_outcome = "returned"
    /\ last_error = "none"
    /\ err_phase = "none"
    /\ last_listing = "vehicles"
    /\ gather_failure = NoFailure
    /\ silent_seen = FALSE
    /\ sensors = <<>>
    /\ sensor_setup = "none"
    /\ last_read = NoRead

ProjNext ==
    \/ ForwardEntrySetups
    \/ ReadNativeValue
    \/ ReadExtraStateAttributes

ProjSpec == ProjInit /\ [][ProjNext]_vars

(***************************************************************************)
(* Scheduling: the event loop runs a timer that is due and resumes a       *)
(* coroutine whose awaited call has ended; an upstream that has not        *)
(* stalled answers.                                                        *)
(***************************************************************************)
Responds ==
    \/ GetVehiclesReturns
    \/ GetVehiclesRaises
    \/ UpdateReturns
    \/ UpdateRaises
    \/ Gather

FairSpec ==
    /\ Spec
    /\ WF_vars(DeadlineElapses)
    /\ WF_vars(Responds)
    /\ WF_vars(FirstRefresh)
    /\ WF_vars(StoreCoordinator)
    /\ WF_vars(ForwardEntrySetups)

(***************************************************************************)
(* Properties.                                                             *)
(***************************************************************************)
\* a step that ends a refresh cycle
CycleEnds == cyc_pc # "idle" /\ cyc_pc' = "idle"

\* the coordinator's data is a list with at least one vehicle
Published == ~IsNone(coordinator.data) /\ Len(Get(coordinator.data)) > 0

\* C1: a cycle ended by a Silent-tier error (ToyotaLoginError,
\* ToyotaInternalError, ValidationError) raises nothing to the coordinator
\* and leaves the coordinator's data as it was before the cycle.
C1_SilentKeepsPublished ==
    [][ (CycleEnds /\ last_error' \in Silent)
        => (last_outcome' = "returned"
            /\ coordinator'.data = coordinator.data) ]_vars

\* C2: a cycle ended by a Retryable-tier error ends in UpdateFailed and
\* leaves the coordinator's data as it was; unless a cycle was ended by a
\* Silent-tier error since, the coordinator's data is what the last cycle
\* that met no error returned.
C2_RetryableKeepsPublished ==
    /\ [][ (CycleEnds /\ last_error' \in Retryable)
           => (last_outcome' = "UpdateFailed"
               /\ ~coordinator'.last_update_success
               /\ coordinator'.data = coordinator.data) ]_vars
    /\ [](~silent_seen => coordinator.data = last_good)

C2_Witness ==
    /\ cyc_pc = "idle"
    /\ last_error = "CancelledError"
    /\ err_phase = "gather"
    /\ last_outcome = "UpdateFailed"
    /\ ~silent_seen
    /\ Published
    /\ coordinator.data = last_good

\* C3: once the upstream has stopped responding to the call a cycle awaits,
\* whichever call that is, the cycle ends in UpdateFailed.
C3_StalledCycleEndsRetryable ==
    stalled ~> (cyc_pc = "idle" /\ last_outcome = "UpdateFailed")

\* C4: a cycle whose vehicle listing is None or the empty list ends by
\* returning the empty list, which becomes the coordinator's data.
C4_AbsentOrEmptyListingGivesEmptyResult ==
    (cyc_pc = "idle" /\ last_listing \in {"absent", "empty"})
    => (last_outcome = "returned" /\ coordinator.data = Some(<<>>))

\* no refresh was run, no coordinator stored, no platform forwarded
NothingRan ==
    /\ cyc_pc = "idle"
    /\ last_outcome = "none"
    /\ last_listing = "none"
    /\ ~stored
    /\ ~forwarded
    /\ sensor_setup = "none"

\* C5: a ToyotaLoginError of login aborts setup with ConfigEntryAuthFailed,
\* a ConnectTimeout with ConfigEntryNotReady, and in both cases no refresh
\* is run, no coordinator stored and no platform forwarded.
C5_LoginFailureIsFatal ==
    /\ login_outcome = "ToyotaLoginError"
       => (setup_pc = "aborted" /\ setup_result = "ConfigEntryAuthFailed"
           /\ NothingRan)
    /\ login_outcome = "ConnectTimeout"
       => (setup_pc = "aborted" /\ setup_result = "ConfigEntryNotReady"
           /\ NothingRan)

C5_Witness ==
    /\ login_outcome = "ConnectTimeout"
    /\ setup_pc = "aborted"
    /\ setup_result = "ConfigEntryNotReady"

\* C6: when exactly one of the four summary requests of a vehicle fails and
\* its error is of the Retryable tier, the cycle ends at the join in
\* UpdateFailed with that error and the coordinator's data stays as it was:
\* nothing of that vehicle's statistics is published.
C6_StatisticsAllOrNothing ==
    [][ (cyc_pc = "gather" /\ gather_failure'.failed = 1
         /\ gather_failure'.ex \in Retryable)
        => (cyc_pc' = "idle"
            /\ last_outcome' = "UpdateFailed"
            /\ last_error' = gather_failure'.ex
            /\ coordinator'.data = coordinator.data) ]_vars

C6_Witness ==
    /\ cyc_pc = "idle"
    /\ gather_failure.failed = 1
    /\ gather_failure.ex = "ReadTimeout"
    /\ last_outcome = "UpdateFailed"
    /\ err_phase = "gather"
    /\ Published

\* the keys of the entities created for the vehicle at index i, in order
RECURSIVE KeysFrom(_, _)
KeysFrom(i, k) ==
    IF k > Len(sensors) THEN <<>>
    ELSE IF sensors[k].vehicle_index = i
    THEN <<sensors[k].key>> \o KeysFrom(i, k + 1)
    ELSE KeysFrom(i, k + 1)

KeysOf(i) == KeysFrom(i, 1)

StatisticsKeys == <<"current_day_statistics", "current_week_statistics",
                    "current_month_statistics", "current_year_statistics">>

\* no capability flag of the vehicle is true: the metadata is missing or
\* None, or each flag is false, None or missing
NoCapability(info) ==
    info.ext # "object" \/ \A f \in Flags : info.flags[f] # "true"

\* C7: sensor.async_setup_entry raises nothing, and for a vehicle none of
\* whose capability flags is true (the metadata or a flag may be absent) it
\* creates the vin entity and the four statistics entities and no other.
C7_NoCapabilityGivesIdentityAndStatistics ==
    sensor_setup # "none"
    => /\ sensor_setup = "ok"
       /\ \A i \in 1..Len(Get(coordinator.data)) :
             NoCapability(Get(coordinator.data)[i].data.info)
             => KeysOf(i) = <<"vin">> \o StatisticsKeys

C7_Witness ==
    /\ sensor_setup = "ok"
    /\ Len(Get(coordinator.data)) = 2
    /\ Get(coordinator.data)[1].data.info = AllFalse
    /\ Get(coordinator.data)[2].data.info.ext = "missing"
    /\ KeysOf(1) = <<"vin">> \o StatisticsKeys
    /\ KeysOf(2) = <<"vin">> \o StatisticsKeys
    /\ Len(sensors) = 10

\* C8 as stated: for a vehicle with every capability flag true, nine
\* entities other than the statistics entities are created, thirteen in all.
C8_AllCapabilitiesGiveThirteen ==
    sensor_setup = "ok"
    => \A i \in 1..Len(Get(coordinator.data)) :
          Get(coordinator.data)[i].data.info = AllTrue
          => Len(KeysOf(i)) = 9 + Len(StatisticsKeys)

\* C8, amended: for a vehicle with every capability flag true, the eight
\* entities vin, odometer, fuel_level, fuel_range, battery_level,
\* battery_range, battery_range_ac and total_range are created, then the
\* four statistics entities: twelve in all.
C8_AllCapabilitiesGiveTwelve ==
    sensor_setup = "ok"
    => \A i \in 1..Len(Get(coordinator.data)) :
          Get(coordinator.data)[i].data.info = AllTrue
          => KeysOf(i) = <<"vin", "odometer", "fuel_level", "fuel_range",
                           "battery_level", "battery_range",
                           "battery_range_ac", "total_range">>
                         \o StatisticsKeys

C8_Witness ==
    /\ sensor_setup = "ok"
    /\ Len(Get(coordinator.data)) = 2
    /\ Get(coordinator.data)[2].data.info = AllTrue
    /\ Len(KeysOf(2)) = 12
    /\ Len(sensors) = 17

\* the entity and the vehicle data of the last property read
ReadSensor == sensors[last_read.sensor]

ReadData == Get(coordinator.data)[ReadSensor.vehicle_index]

\* r, in tenths, is d, in hundredths, rounded to one decimal place
RoundedToOneDecimal(r, d) == 10 * r - d <= 5 /\ d - 10 * r <= 5

\* C9: over statistics whose week summary is absent and whose day summary
\* is present with a distance, the day entity's native_value is that
\* distance rounded to one decimal place, zero included, and the week
\* entity's native_value is None.
C9_DayValueRoundedWeekAbsent ==
    (/\ last_read.property = "native_value"
     /\ ~IsNone(ReadData.statistics)
     /\ IsNone(Get(ReadData.statistics)["week"])
     /\ ~IsNone(Get(ReadData.statistics)["day"])
     /\ ~IsNone(Get(Get(ReadData.statistics)["day"]).distance))
    => /\ ReadSensor.key = "current_day_statistics"
          => /\ last_read.result.raised = "none"
             /\ ~IsNone(last_read.result.value)
             /\ RoundedToOneDecimal(
                  Get(last_read.result.value),
                  Get(Get(Get(ReadData.statistics)["day"]).distance))
       /\ ReadSensor.key = "current_week_statistics"
          => last_read.result = Returned(None)

\* the object the last property read draws on is missing: the dashboard
\* for an entity on a dashboard reading, the statistics or the period's
\* summary for a statistics entity
ReadOfMissing ==
    /\ last_read.property # "none"
    /\ IF ReadSensor.sensor_type = "ToyotaSensor"
       THEN ReadSensor.key # "vin" /\ IsNone(ReadData.data.dashboard)
       ELSE \/ IsNone(ReadData.statistics)
            \/ IsNone(Get(ReadData.statistics)[period(ReadSensor.key)])

\* C10: a native_value or extra_state_attributes read of an entity whose
\* dashboard, statistics or summary is missing returns None and raises
\* nothing.
C10_ReadsAreTotalOverMissingData ==
    ReadOfMissing => last_read.result = Returned(None)

\* the vehicle exposes an identifier that is neither None nor empty
NonEmptyVin(vehicle) == ~IsNone(vehicle.vin) /\ Get(vehicle.vin) # ""

\* C11: the four summary requests of a vehicle are awaited only for a
\* vehicle whose vin is neither None nor empty, and a published vehicle
\* whose vin is None or empty carries no statistics.
C11_StatisticsOnlyForNonEmptyVin ==
    /\ cyc_pc = "gather" => NonEmptyVin(Get(vehicles)[index])
    /\ ~IsNone(coordinator.data)
       => \A i \in 1..Len(Get(coordinator.data)) :
             ~NonEmptyVin(Get(coordinator.data)[i].data)
             => IsNone(Get(coordinator.data)[i].statistics)

\* C12: whatever the first refresh gave, async_setup_entry does not store
\* the coordinator and go on to the creation of the sensor entities while
\* the coordinator's data is None, so sensor.async_setup_entry never
\* enumerates None.
C12_EntitiesCreatedFromPublishedResult ==
    /\ (stored /\ setup_pc = "forward") => ~IsNone(coordinator.data)
    /\ sensor_setup # "TypeError"

====
